---- MODULE Spec2Model ----
(***************************************************************************)
(* Model of utils_siagro.py: cepal_data (the indicator fetch / enrich /    *)
(* combine / filter pipeline) and load_dimension_data (the dimension       *)
(* loader with its on-disk cache).                                         *)
(*                                                                         *)
(* Cell values are tagged records, so that the integer 5 and the string    *)
(* "5" are different values, as in Python.  Strings are TLA+ strings; the  *)
(* operations that look inside a string (lower, upper, substring test,     *)
(* numeric parsing) work on the string's characters, given by Chars.       *)
(***************************************************************************)
EXTENDS Integers, Sequences, FiniteSets, TLC

VARIABLES
    indicator_ids,  \* argument: sequence of indicator ids
    start_year,     \* argument: Yr(n) or NoYear (None)
    end_year,       \* argument: Yr(n) or NoYear (None)
    countries,      \* argument: sequence of strings (<<>> for None / empty)
    world,          \* the remote source: id -> [data, dims, meta] responses
    pc,             \* "loop", "done" (returned), "raised" (exception left
                    \* cepal_data), "idle" (cepal_data not running)
    i,              \* position of the for loop in indicator_ids (1-based)
    dfs,            \* the list dfs of per-indicator frames
    year_column,    \* the local year_column of the last filtering
    log,            \* set of log records emitted so far
    result,         \* the returned value: Returned(df), ReturnedNone, or
                    \* NotReturned (still running, or left by an exception)
    cache,          \* load_dimension_data: the cache artifact (per indicator)
    netCalls,       \* load_dimension_data: number of pd.read_excel(url) calls
    lastCall        \* load_dimension_data: the last call and its outcome

vars == <<indicator_ids, start_year, end_year, countries, world, pc, i, dfs,
          year_column, log, result, cache, netCalls, lastCall>>

pipeVars == <<indicator_ids, start_year, end_year, countries, world, pc, i,
              dfs, year_column, log, result>>

dimVars == <<cache, netCalls, lastCall>>

-----------------------------------------------------------------------------
(* Bounds *)

MaxIndicators == 2

MaxCalls == 3

-----------------------------------------------------------------------------
(* Values *)

\* An optional year bound: None, or an integer.
NoYear == [given |-> FALSE, n |-> 0]

Yr(k) == [given |-> TRUE, n |-> k]

NoColumn == "<no column>"

Null == [t |-> "null", n |-> 0, s |-> ""]

I(k) == [t |-> "int", n |-> k, s |-> ""]

S(x) == [t |-> "str", n |-> 0, s |-> x]

Range(f) == {f[x] : x \in DOMAIN f}

\* The characters of the strings the model looks inside.
Chars(s) ==
    CASE s = "Años__ESTANDAR" ->
           <<"A","ñ","o","s","_","_","E","S","T","A","N","D","A","R">>
      [] s = "Years__ESTANDAR" ->
           <<"Y","e","a","r","s","_","_","E","S","T","A","N","D","A","R">>
      [] s = "Year" -> <<"Y","e","a","r">>
      [] s = "TIME" -> <<"T","I","M","E">>
      [] s = "Time" -> <<"T","i","m","e">>
      [] s = "YEAR" -> <<"Y","E","A","R">>
      [] s = "year" -> <<"y","e","a","r">>
      [] s = "Period" -> <<"P","e","r","i","o","d">>
      [] s = "period" -> <<"p","e","r","i","o","d">>
      [] s = "TIME_PERIOD" -> <<"T","I","M","E","_","P","E","R","I","O","D">>
      [] s = "ref_YEAR" -> <<"r","e","f","_","Y","E","A","R">>
      [] s = "AÑO" -> <<"A","Ñ","O">>
      [] s = "anio" -> <<"a","n","i","o">>
      [] s = "value" -> <<"v","a","l","u","e">>
      [] s = "iso3" -> <<"i","s","o","3">>
      [] s = "indicator_id" ->
           <<"i","n","d","i","c","a","t","o","r","_","i","d">>
      [] s = "indicator_name" ->
           <<"i","n","d","i","c","a","t","o","r","_","n","a","m","e">>
      [] s = "dim_1" -> <<"d","i","m","_","1">>
      [] s = "dim_2" -> <<"d","i","m","_","2">>
      [] s = "Country" -> <<"C","o","u","n","t","r","y">>
      [] s = "Sex" -> <<"S","e","x">>
      [] s = "bra" -> <<"b","r","a">>
      [] s = "BRA" -> <<"B","R","A">>
      [] s = "Bra" -> <<"B","r","a">>
      [] s = "mex" -> <<"m","e","x">>
      [] s = "MEX" -> <<"M","E","X">>
      [] s = "CHL" -> <<"C","H","L">>
      [] s = "chl" -> <<"c","h","l">>
      [] s = "ARG" -> <<"A","R","G">>
      [] s = "2014" -> <<"2","0","1","4">>
      [] s = "2015" -> <<"2","0","1","5">>
      [] s = "2018" -> <<"2","0","1","8">>
      [] s = "2020" -> <<"2","0","2","0">>
      [] s = "2021" -> <<"2","0","2","1">>
      [] s = "n/a" -> <<"n","/","a">>
      [] s = "" -> <<>>

RECURSIVE Join(_)
\* The string made of the characters cs.
Join(cs) == IF cs = <<>> THEN "" ELSE Head(cs) \o Join(Tail(cs))

UpperCase == <<"A","B","C","D","E","F","G","H","I","J","K","L","M","N","Ñ",
               "O","P","Q","R","S","T","U","V","W","X","Y","Z">>

LowerCase == <<"a","b","c","d","e","f","g","h","i","j","k","l","m","n","ñ",
               "o","p","q","r","s","t","u","v","w","x","y","z">>

LowerChar(c) ==
    IF \E k \in DOMAIN UpperCase : UpperCase[k] = c
    THEN LowerCase[CHOOSE k \in DOMAIN UpperCase : UpperCase[k] = c]
    ELSE c

UpperChar(c) ==
    IF \E k \in DOMAIN LowerCase : LowerCase[k] = c
    THEN UpperCase[CHOOSE k \in DOMAIN LowerCase : LowerCase[k] = c]
    ELSE c

\* str.lower() and str.upper(), on characters.
PyLower(s) == [k \in DOMAIN Chars(s) |-> LowerChar(Chars(s)[k])]

PyUpper(s) == Join([k \in DOMAIN Chars(s) |-> UpperChar(Chars(s)[k])])

\* pat in cs, for character sequences.
Contains(cs, pat) ==
    \E k \in 0..(Len(cs) - Len(pat)) :
        \A j \in 1..Len(pat) : cs[k + j] = pat[j]

Digits == <<"0","1","2","3","4","5","6","7","8","9">>

IsDigit(c) == \E k \in DOMAIN Digits : Digits[k] = c

DigitVal(c) == (CHOOSE k \in DOMAIN Digits : Digits[k] = c) - 1

RECURSIVE ParseDigits(_, _)
ParseDigits(cs, acc) ==
    IF cs = <<>> THEN acc
    ELSE ParseDigits(Tail(cs), 10 * acc + DigitVal(Head(cs)))

\* pd.to_numeric(..., errors='coerce') of one cell: numbers stay, strings of
\* digits are parsed, everything else becomes NaN.
ToNumeric(v) ==
    CASE v.t = "int" -> v
      [] v.t = "str" ->
           IF Chars(v.s) # <<>> /\ \A k \in DOMAIN Chars(v.s) : IsDigit(Chars(v.s)[k])
           THEN I(ParseDigits(Chars(v.s), 0))
           ELSE Null
      [] OTHER -> Null

\* str(x) / astype(str) of one cell.
PyStr(v) ==
    CASE v.t = "int" -> ToString(v.n)
      [] v.t = "str" -> v.s
      [] OTHER -> "nan"

-----------------------------------------------------------------------------
(* Python dicts: a sequence of [k, v] entries in insertion order. *)

DictHas(d, k) == \E j \in DOMAIN d : d[j].k = k

DictGet(d, k) == d[CHOOSE j \in DOMAIN d : d[j].k = k].v

\* d[k] = v: an existing key keeps its position and takes the new value.
DictSet(d, k, v) ==
    IF DictHas(d, k)
    THEN [j \in DOMAIN d |-> IF d[j].k = k THEN [k |-> k, v |-> v] ELSE d[j]]
    ELSE Append(d, [k |-> k, v |-> v])

-----------------------------------------------------------------------------
(* Data frames: column names in order, the index labels of the rows, and   *)
(* the rows (functions from column name to cell).                          *)

EmptyFrame == [cols |-> <<>>, idx |-> <<>>, rows |-> <<>>]

\* What cepal_data has returned.
NotReturned == [kind |-> "not_returned", df |-> EmptyFrame]

ReturnedNone == [kind |-> "none", df |-> EmptyFrame]

Returned(df) == [kind |-> "frame", df |-> df]

HasCol(df, c) == c \in Range(df.cols)

NRows(df) == Len(df.rows)

\* df[c] = vals : replaces the column c, or appends it as the last column.
SetCol(df, c, vals) ==
    LET cols2 == IF HasCol(df, c) THEN df.cols ELSE Append(df.cols, c)
    IN  [cols |-> cols2,
         idx  |-> df.idx,
         rows |-> [r \in DOMAIN df.rows |->
                     [k \in Range(cols2) |->
                        IF k = c THEN vals[r] ELSE df.rows[r][k]]]]

\* df[mask] : the rows r with keep[r], index labels kept.
RECURSIVE KeptPositions(_, _)
KeptPositions(keep, r) ==
    IF r > Len(keep) THEN <<>>
    ELSE (IF keep[r] THEN <<r>> ELSE <<>>) \o KeptPositions(keep, r + 1)

FilterRows(df, keep) ==
    LET pos == KeptPositions(keep, 1)
    IN  [cols |-> df.cols,
         idx  |-> [k \in DOMAIN pos |-> df.idx[pos[k]]],
         rows |-> [k \in DOMAIN pos |-> df.rows[pos[k]]]]

\* pd.DataFrame(records): the records of one response share their keys.
DataFrame(data) ==
    [cols |-> data.cols,
     idx  |-> [r \in DOMAIN data.rows |-> r - 1],
     rows |-> data.rows]

RECURSIVE UnionCols(_, _)
UnionCols(frames, acc) ==
    IF frames = <<>> THEN acc
    ELSE LET new == SelectSeq(Head(frames).cols, LAMBDA c : c \notin Range(acc))
         IN  UnionCols(Tail(frames), acc \o new)

RECURSIVE AllRows(_)
AllRows(frames) ==
    IF frames = <<>> THEN <<>> ELSE Head(frames).rows \o AllRows(Tail(frames))

\* pd.concat(frames, ignore_index=True): union of the columns in order of
\* first appearance, missing cells NaN, a fresh 0..n-1 index.
Concat(frames) ==
    LET cols == UnionCols(frames, <<>>)
        rows == AllRows(frames)
    IN  [cols |-> cols,
         idx  |-> [r \in DOMAIN rows |-> r - 1],
         rows |-> [r \in DOMAIN rows |->
                     [k \in Range(cols) |->
                        IF k \in DOMAIN rows[r] THEN rows[r][k] ELSE Null]]]

-----------------------------------------------------------------------------
(* Log records *)

LogRec(level, what, id, col, codes) ==
    [level |-> level, what |-> what, id |-> id, col |-> col, codes |-> codes]

-----------------------------------------------------------------------------
(* cepal_data, one pass of the loop over indicator_ids (lines 117-211)     *)

\* A response of requests.get: raises (connection error: no response at
\* all), or carries a status code and a JSON body.
Raises(resp) == resp.raises

StatusOK(resp) == resp.status_code = 200

\* f"dim_{dim_id}"
DimColumn(dim_id) == "dim_" \o ToString(dim_id)

\* f"Indicator {indicator_id}"
DefaultName(indicator_id) == "Indicator " \o ToString(indicator_id)

RECURSIVE BuildMemberMap(_, _)
\* member_map[member['id']] = member['name'] for each member
BuildMemberMap(members, acc) ==
    IF members = <<>> THEN acc
    ELSE BuildMemberMap(Tail(members),
                        DictSet(acc, Head(members).id, Head(members).name))

RECURSIVE BuildDimensionMaps(_, _)
\* dimension_name_map and dimension_member_maps, filled dimension by dimension
BuildDimensionMaps(dimensions, acc) ==
    IF dimensions = <<>> THEN acc
    ELSE LET dimension == Head(dimensions)
             dim_column == DimColumn(dimension.id)
         IN  BuildDimensionMaps(Tail(dimensions),
               [names   |-> DictSet(acc.names, dim_column, dimension.name),
                members |-> DictSet(acc.members, dim_column,
                                    BuildMemberMap(dimension.members, <<>>))])

RECURSIVE MemberMapStr(_, _)
\* {str(k): v for k, v in member_map.items()}
MemberMapStr(member_map, acc) ==
    IF member_map = <<>> THEN acc
    ELSE MemberMapStr(Tail(member_map),
                      DictSet(acc, PyStr(Head(member_map).k), Head(member_map).v))

\* dimension_name_map.get(dim_col, dim_col)
LabelCol(dimension_name_map, dim_col) ==
    IF DictHas(dimension_name_map, dim_col)
    THEN DictGet(dimension_name_map, dim_col)
    ELSE dim_col

\* df[dim_col].astype(str).map(member_map_str)
MapLabels(df, dim_col, member_map_str) ==
    [r \in DOMAIN df.rows |->
       LET key == PyStr(df.rows[r][dim_col])
       IN  IF DictHas(member_map_str, key)
           THEN S(DictGet(member_map_str, key))
           ELSE Null]

RECURSIVE Enrich(_, _, _)
\* step 5: for dim_col, member_map in dimension_member_maps.items()
Enrich(df, dimension_name_map, member_maps) ==
    IF member_maps = <<>> THEN df
    ELSE LET dim_col == Head(member_maps).k
             member_map_str == MemberMapStr(Head(member_maps).v, <<>>)
             df2 == IF HasCol(df, dim_col)
                    THEN SetCol(df, LabelCol(dimension_name_map, dim_col),
                                MapLabels(df, dim_col, member_map_str))
                    ELSE df
         IN  Enrich(df2, dimension_name_map, Tail(member_maps))

\* step 4: the indicator name from the metadata response
ResolveName(indicator_id, metadata_response) ==
    LET dflt == DefaultName(indicator_id)
        metadata == metadata_response.json
    IN  IF ~StatusOK(metadata_response) THEN dflt
        ELSE IF /\ "body" \in DOMAIN metadata
                /\ "metadata" \in DOMAIN metadata.body
                /\ "indicator_name" \in DOMAIN metadata.body.metadata
             THEN metadata.body.metadata.indicator_name
        ELSE IF "body" \in DOMAIN metadata
             THEN IF "indicator_name" \in DOMAIN metadata.body
                  THEN metadata.body.indicator_name
                  ELSE IF /\ "indicators" \in DOMAIN metadata.body
                          /\ metadata.body.indicators # <<>>
                       THEN IF "name" \in DOMAIN metadata.body.indicators[1]
                            THEN metadata.body.indicators[1].name
                            ELSE dflt
                  ELSE IF "name" \in DOMAIN metadata.body
                       THEN metadata.body.name
                  ELSE IF "title" \in DOMAIN metadata.body
                       THEN metadata.body.title
                  ELSE dflt
        ELSE dflt

ConstCol(df, v) == [r \in DOMAIN df.rows |-> v]

\* The body of the for loop for one indicator, given the responses w of the
\* remote source: what it leaves in dfs and log, and whether a request raised.
Iteration(indicator_id, w, dfs0, log0) ==
    IF Raises(w.data)
    THEN [raised |-> TRUE, dfs |-> dfs0, log |-> log0]
    ELSE IF ~StatusOK(w.data)
    THEN [raised |-> FALSE, dfs |-> dfs0,
          log |-> log0 \cup {LogRec("error", "data", indicator_id, "", {})}]
    ELSE IF w.data.json.body.data.rows = <<>>
    THEN [raised |-> FALSE, dfs |-> dfs0,
          log |-> log0 \cup {LogRec("info", "no_data", indicator_id, "", {})}]
    ELSE
      LET df0 == DataFrame(w.data.json.body.data)
          df1 == SetCol(df0, "indicator_id", ConstCol(df0, I(indicator_id)))
      IN  IF Raises(w.dims)
          THEN [raised |-> TRUE, dfs |-> dfs0, log |-> log0]
          ELSE IF ~StatusOK(w.dims)
          THEN [raised |-> FALSE, dfs |-> Append(dfs0, df1),
                log |-> log0 \cup
                        {LogRec("error", "dimensions", indicator_id, "", {})}]
          ELSE
            LET maps == BuildDimensionMaps(w.dims.json.body.dimensions,
                                           [names |-> <<>>, members |-> <<>>])
            IN  IF Raises(w.meta)
                THEN [raised |-> TRUE, dfs |-> dfs0, log |-> log0]
                ELSE
                  LET indicator_name == ResolveName(indicator_id, w.meta)
                      df2 == SetCol(df1, "indicator_name",
                                    ConstCol(df1, S(indicator_name)))
                      df3 == Enrich(df2, maps.names, maps.members)
                  IN  [raised |-> FALSE, dfs |-> Append(dfs0, df3),
                       log |-> log0 \cup
                               {LogRec("info", "processed", indicator_id, "", {})}]

Step ==
    /\ pc = "loop"
    /\ i <= Len(indicator_ids)
    /\ LET out == Iteration(indicator_ids[i], world[indicator_ids[i]], dfs, log)
       IN  /\ pc' = IF out.raised THEN "raised" ELSE "loop"
           /\ i' = IF out.raised THEN i ELSE i + 1
           /\ dfs' = out.dfs
           /\ log' = out.log
    /\ UNCHANGED <<indicator_ids, start_year, end_year, countries, world,
                   year_column, result>>
    /\ UNCHANGED dimVars

-----------------------------------------------------------------------------
(* cepal_data, after the loop: combine and filter (lines 213-291)          *)

\* The candidates with 'Year' and 'TIME' in each other's place.
potential_year_columns_reordered ==
    <<"TIME", "Year", "Time", "YEAR", "year", "Period", "period", "TIME_PERIOD">>

potential_year_columns ==
    <<"Year", "TIME", "Time", "YEAR", "year", "Period", "period", "TIME_PERIOD">>

RECURSIVE FirstPresent(_, _)
\* for col in candidates: if col in combined_df.columns: ... break
FirstPresent(candidates, cols) ==
    IF candidates = <<>> THEN NoColumn
    ELSE IF Head(candidates) \in Range(cols) THEN Head(candidates)
    ELSE FirstPresent(Tail(candidates), cols)

\* 'year' in col.lower() or 'año' in col.lower()
LooksLikeYear(col) ==
    \/ Contains(PyLower(col), <<"y","e","a","r">>)
    \/ Contains(PyLower(col), <<"a","ñ","o">>)

RECURSIVE FirstLooksLikeYear(_)
\* for col in combined_df.columns: if ...: year_column = col; break
FirstLooksLikeYear(cols) ==
    IF cols = <<>> THEN NoColumn
    ELSE IF LooksLikeYear(Head(cols)) THEN Head(cols)
    ELSE FirstLooksLikeYear(Tail(cols))

\* lines 220-240: the year column of the combined frame
FindYearColumn(cols) ==
    IF "Años__ESTANDAR" \in Range(cols) THEN "Años__ESTANDAR"
    ELSE IF "Years__ESTANDAR" \in Range(cols) THEN "Years__ESTANDAR"
    ELSE LET col == FirstPresent(potential_year_columns, cols)
         IN  IF col # NoColumn THEN col ELSE FirstLooksLikeYear(cols)

\* The lower bound taken as exclusive.
GeStartExclusive(v, lo) == v.t = "int" /\ v.n > lo

\* combined_df[year_column] >= start_year, for one cell (NaN compares False)
GeStart(v, lo) == v.t = "int" /\ v.n >= lo

\* combined_df[year_column] <= end_year, for one cell (NaN compares False)
LeEnd(v, hi) == v.t = "int" /\ v.n <= hi

\* lines 243-253: the frame after year filtering on year_col
ApplyYearFilter(df, year_col, lo, hi) ==
    LET df1 == SetCol(df, year_col,
                      [r \in DOMAIN df.rows |-> ToNumeric(df.rows[r][year_col])])
        df2 == IF lo.given
               THEN FilterRows(df1, [r \in DOMAIN df1.rows |->
                                       GeStart(df1.rows[r][year_col], lo.n)])
               ELSE df1
        df3 == IF hi.given
               THEN FilterRows(df2, [r \in DOMAIN df2.rows |->
                                       LeEnd(df2.rows[r][year_col], hi.n)])
               ELSE df2
    IN  df3

\* lines 217-255: year filtering; gives the frame, the year column, the log
YearStage(df, lo, hi) ==
    IF lo.given \/ hi.given
    THEN LET col == FindYearColumn(df.cols)
         IN  IF col # NoColumn
             THEN [df |-> ApplyYearFilter(df, col, lo, hi), col |-> col,
                   log |-> {LogRec("info", "year_filter", 0, col, {})}]
             ELSE [df |-> df, col |-> NoColumn,
                   log |-> {LogRec("warning", "no_year_column", 0, "", {})}]
    ELSE [df |-> df, col |-> NoColumn, log |-> {}]

\* dtype == 'object': the column holds strings.  (Read off the cells: the
\* cells that are not strings are never kept by isin either way.)
IsObject(df, c) == \E r \in DOMAIN df.rows : df.rows[r][c].t = "str"

\* The iso3 column left as it came.
UpperIso3Skipped(df) == df

\* line 262: combined_df['iso3'].str.upper() if object dtype, else unchanged
UpperIso3(df) ==
    IF IsObject(df, "iso3")
    THEN SetCol(df, "iso3",
                [r \in DOMAIN df.rows |->
                   IF df.rows[r]["iso3"].t = "str"
                   THEN S(PyUpper(df.rows[r]["iso3"].s))
                   ELSE Null])
    ELSE df

\* line 263: [c.upper() for c in countries]
CountryListUpper(cs) == [k \in DOMAIN cs |-> PyUpper(cs[k])]

\* line 267: combined_df['iso3'].isin(country_list_upper), for one cell
IsIn(v, country_list_upper) == v.t = "str" /\ v.s \in Range(country_list_upper)

\* lines 274-275: the requested codes without a row in the filtered frame
MissingCountries(df, country_list_upper) ==
    LET found_countries == {df.rows[r]["iso3"] : r \in DOMAIN df.rows}
    IN  {c \in Range(country_list_upper) : S(c) \notin found_countries}

\* lines 257-279: country filtering; gives the frame and the log
CountryStage(df, cs) ==
    IF cs # <<>>
    THEN IF HasCol(df, "iso3")
         THEN LET df1 == UpperIso3(df)
                  country_list_upper == CountryListUpper(cs)
                  df2 == FilterRows(df1, [r \in DOMAIN df1.rows |->
                                            IsIn(df1.rows[r]["iso3"],
                                                 country_list_upper)])
                  missing_countries == MissingCountries(df2, country_list_upper)
              IN  [df |-> df2,
                   log |-> {LogRec("info", "country_filter", 0, "iso3", {})}
                           \cup (IF missing_countries # {}
                                 THEN {LogRec("warning", "missing_countries", 0,
                                              "iso3", missing_countries)}
                                 ELSE {})]
         ELSE [df |-> df, log |-> {LogRec("warning", "no_iso3", 0, "", {})}]
    ELSE [df |-> df, log |-> {}]

Finish ==
    /\ pc = "loop"
    /\ i > Len(indicator_ids)
    /\ IF dfs # <<>>
       THEN LET combined_df == Concat(dfs)
                y == YearStage(combined_df, start_year, end_year)
                c == CountryStage(y.df, countries)
            IN  /\ result' = Returned(c.df)
                /\ year_column' = y.col
                /\ log' = log \cup y.log \cup c.log
       ELSE /\ result' = ReturnedNone
            /\ year_column' = year_column
            /\ log' = log \cup {LogRec("info", "no_data_at_all", 0, "", {})}
    /\ pc' = "done"
    /\ UNCHANGED <<indicator_ids, start_year, end_year, countries, world, i, dfs>>
    /\ UNCHANGED dimVars

Next == Step \/ Finish

-----------------------------------------------------------------------------
(* load_dimension_data (lines 70-98)                                       *)

\* The indicators whose dimensions are loaded.
DimIds == 1..MaxIndicators

\* The tables the dimensions endpoint may serve (it may change over time).
DimTables == {[sheet |-> "dimensions", version |-> v] : v \in 1..2}

NoTable == [sheet |-> "", version |-> 0]

\* The cache file cache_dim_<id>.pkl: absent, or a file that holds the whole
\* pickle of a table, or only a part of it (a write that failed half way).
NoArtifact == [exists |-> FALSE, complete |-> FALSE, table |-> NoTable]

\* dim.to_pickle(cache_path), completed
Pickled(dim) == [exists |-> TRUE, complete |-> TRUE, table |-> dim]

\* dim.to_pickle(cache_path), failed after the file was created
Truncated(dim) == [exists |-> TRUE, complete |-> FALSE, table |-> dim]

\* pd.read_pickle(cache_path) succeeds on a whole pickle only
Unpickles(artifact) == artifact.exists /\ artifact.complete

NoCall ==
    [indicator_id |-> 0, cache_dim |-> FALSE, before |-> NoArtifact,
     outcome |-> "no call", value |-> NoTable, requests |-> 0, logged |-> "none"]

CallRec(id, cache_dim, before, outcome, value, requests, logged) ==
    [indicator_id |-> id, cache_dim |-> cache_dim, before |-> before,
     outcome |-> outcome, value |-> value, requests |-> requests,
     logged |-> logged]

\* lines 84-86: the cache branch is taken
CacheBranch(id, cache_dim) == cache_dim /\ cache[id].exists

\* lines 85-86 and 98: read the pickle and return it; read_pickle is outside
\* the try block, so its exception leaves the function.
LoadCached(id, cache_dim) ==
    /\ CacheBranch(id, cache_dim)
    /\ lastCall' =
          IF Unpickles(cache[id])
          THEN CallRec(id, cache_dim, cache[id], "returned", cache[id].table, 0,
                       "info")
          ELSE CallRec(id, cache_dim, cache[id], "raised", NoTable, 0, "none")
    /\ UNCHANGED <<cache, netCalls>>

\* lines 88-97: fetch from the API; any exception of the request, of mkdir or
\* of to_pickle is caught, logged, and None is returned.
LoadRemote(id, cache_dim) ==
    /\ ~CacheBranch(id, cache_dim)
    /\ netCalls < MaxCalls
    /\ netCalls' = netCalls + 1
    /\ \/ \* pd.read_excel raises
          /\ lastCall' = CallRec(id, cache_dim, cache[id], "none", NoTable, 1,
                                 "error")
          /\ UNCHANGED cache
       \/ \E dim \in DimTables :
             IF cache_dim
             THEN \/ \* the pickle is written
                     /\ cache' = [cache EXCEPT ![id] = Pickled(dim)]
                     /\ lastCall' = CallRec(id, cache_dim, cache[id], "returned",
                                            dim, 1, "info")
                  \/ \* mkdir or to_pickle raises: no file, or a part of it
                     /\ cache' \in {cache, [cache EXCEPT ![id] = Truncated(dim)]}
                     /\ lastCall' = CallRec(id, cache_dim, cache[id], "none",
                                            NoTable, 1, "error")
             ELSE /\ lastCall' = CallRec(id, cache_dim, cache[id], "returned",
                                         dim, 1, "info")
                  /\ UNCHANGED cache

load_dimension_data(id, cache_dim) ==
    /\ pc = "idle"
    /\ \/ LoadCached(id, cache_dim)
       \/ LoadRemote(id, cache_dim)
    /\ UNCHANGED pipeVars

NextDim == \E id \in DimIds, cache_dim \in BOOLEAN : load_dimension_data(id, cache_dim)

-----------------------------------------------------------------------------
(* Inputs: the arguments of one call and the responses of the remote       *)
(* source.  The calls come in families, each varying one part of the call. *)

OK(json) == [raises |-> FALSE, status_code |-> 200, json |-> json]

HttpError(json) == [raises |-> FALSE, status_code |-> 404, json |-> json]

ConnectionError(json) == [raises |-> TRUE, status_code |-> 0, json |-> json]

\* A JSON object without fields.
NoFields == [k \in {} |-> ""]

Row(cols, vals) ==
    [c \in Range(cols) |-> vals[CHOOSE k \in DOMAIN cols : cols[k] = c]]

DataJson(cols, rows) == [body |-> [data |-> [cols |-> cols, rows |-> rows]]]

DimsJson(dimensions) == [body |-> [dimensions |-> dimensions]]

Dimension(id, name, members) == [id |-> id, name |-> name, members |-> members]

Member(id, name) == [id |-> id, name |-> name]

MetaNamed(name) == [body |-> [metadata |-> [indicator_name |-> name]]]

Ids(n) == [k \in 1..n |-> k]

\* A family of calls: up to maxn indicators, each answered from answers, with
\* the filter arguments taken from args.
CallsOver(answers, args, maxn) == [answers |-> answers, args |-> args, maxn |-> maxn]

NoFilter == [lo |-> NoYear, hi |-> NoYear, countries |-> <<>>]

\* -- transport: every outcome of the three requests of each indicator
TCols == <<"dim_1", "iso3", "Year", "value">>

TRows == <<Row(TCols, <<I(5), S("bra"), I(2015), I(10)>>),
           Row(TCols, <<I(6), S("MEX"), I(2020), I(20)>>)>>

TransportData ==
    {ConnectionError(DataJson(<<>>, <<>>)), HttpError(DataJson(<<>>, <<>>)),
     OK(DataJson(TCols, <<>>)), OK(DataJson(TCols, TRows))}

TDimensions ==
    <<Dimension(1, "Country", <<Member(I(5), "Brazil"), Member(I(6), "Mexico")>>)>>

TransportDims ==
    {ConnectionError(DimsJson(<<>>)), HttpError(DimsJson(<<>>)),
     OK(DimsJson(TDimensions))}

TransportMeta ==
    {ConnectionError(NoFields), HttpError(NoFields), OK(MetaNamed("Population"))}

TransportArgs ==
    {[lo |-> NoYear, hi |-> NoYear, countries |-> <<>>],
     [lo |-> Yr(2030), hi |-> NoYear, countries |-> <<>>],
     [lo |-> NoYear, hi |-> NoYear, countries |-> <<"ARG">>]}

TransportCalls ==
    CallsOver([data : TransportData, dims : TransportDims, meta : TransportMeta],
              TransportArgs, MaxIndicators)

\* -- enrichment: one indicator, every dimension table of up to two dimensions
ECols == <<"dim_1", "dim_2", "value">>

ERows == <<Row(ECols, <<I(5), S("7"), I(10)>>),
           Row(ECols, <<S("5"), I(8), I(20)>>),
           Row(ECols, <<I(6), I(7), I(30)>>)>>

ECols1 == <<"dim_1", "value">>

ERows1 == <<Row(ECols1, <<I(5), I(10)>>), Row(ECols1, <<I(9), I(20)>>)>>

EnrichData == {OK(DataJson(ECols, ERows)), OK(DataJson(ECols1, ERows1))}

EMembers ==
    {<<Member(I(5), "Brazil"), Member(S("6"), "Chile")>>,
     <<Member(I(7), "Male"), Member(I(8), "Female")>>}

EDimension ==
    {Dimension(id, name, members) :
        id \in 1..3, name \in {"Country", "Sex", "dim_1", "dim_2"},
        members \in EMembers}

EnrichDims ==
    {OK(DimsJson(ds)) : ds \in UNION {[1..n -> EDimension] : n \in 0..2}}

EnrichCalls ==
    CallsOver([data : EnrichData, dims : EnrichDims,
               meta : {OK(MetaNamed("Population"))}], {NoFilter}, 1)

\* -- metadata: one indicator, every combination of the name fields
MetaBody(m, b, c, d, e) ==
    LET keys == (IF m # "absent" THEN {"metadata"} ELSE {})
                \cup (IF b THEN {"indicator_name"} ELSE {})
                \cup (IF c # "absent" THEN {"indicators"} ELSE {})
                \cup (IF d THEN {"name"} ELSE {})
                \cup (IF e THEN {"title"} ELSE {})
    IN  [k \in keys |->
           CASE k = "metadata" ->
                  IF m = "named" THEN [indicator_name |-> "Na"] ELSE NoFields
             [] k = "indicator_name" -> "Nb"
             [] k = "indicators" ->
                  (CASE c = "empty" -> <<>>
                     [] c = "unnamed" -> <<NoFields>>
                     [] OTHER -> <<[name |-> "Nc"]>>)
             [] k = "name" -> "Nd"
             [] k = "title" -> "Ne"]

MetaJsons ==
    {NoFields} \cup
    {[body |-> MetaBody(m, b, c, d, e)] :
        m \in {"absent", "empty", "named"}, b \in BOOLEAN,
        c \in {"absent", "empty", "unnamed", "named"},
        d \in BOOLEAN, e \in BOOLEAN}

MetaResponses ==
    {OK(j) : j \in MetaJsons} \cup {HttpError(MetaNamed("Na"))}

MCols == <<"value">>

MetaCalls ==
    CallsOver([data : {OK(DataJson(MCols, <<Row(MCols, <<I(10)>>)>>))},
               dims : {OK(DimsJson(<<>>))},
               meta : MetaResponses], {NoFilter}, 1)

\* -- year column: the indicators bring differently named year columns
YearColumnNames ==
    {"Años__ESTANDAR", "Years__ESTANDAR", "Year", "TIME", "Time", "YEAR", "year",
     "Period", "period", "TIME_PERIOD", "ref_YEAR", "AÑO", "anio"}

YCols(name) == <<"value", name>>

YearColumnData ==
    {OK(DataJson(YCols(name), <<Row(YCols(name), <<I(10), I(2014)>>),
                                Row(YCols(name), <<I(20), I(2018)>>)>>)) :
        name \in YearColumnNames}

YearColumnArgs ==
    {[lo |-> Yr(2015), hi |-> Yr(2020), countries |-> <<>>],
     [lo |-> NoYear, hi |-> Yr(2020), countries |-> <<>>]}

YearColumnCalls ==
    CallsOver([data : YearColumnData, dims : {OK(DimsJson(<<>>))},
               meta : {OK(MetaNamed("Population"))}],
              YearColumnArgs, MaxIndicators)

\* -- filters: year values and country codes of every kind, every bound
YearValues ==
    {<<I(2014), S("2015"), I(2020)>>, <<I(2021), S("n/a"), I(2018)>>}

Iso3Values ==
    {<<S("bra"), S("MEX"), S("CHL")>>, <<S("Bra"), Null, I(76)>>,
     <<I(76), I(484), I(152)>>}

FCols == <<"Year", "iso3", "value">>

FColsNoIso3 == <<"Year", "value">>

FilterData ==
    {OK(DataJson(FCols, [r \in 1..3 |-> Row(FCols, <<ys[r], cs[r], I(10 * r)>>)])) :
        ys \in YearValues, cs \in Iso3Values}
    \cup
    {OK(DataJson(FColsNoIso3,
                 [r \in 1..3 |-> Row(FColsNoIso3, <<ys[r], I(10 * r)>>)])) :
        ys \in YearValues}

FilterArgs ==
    [lo : {NoYear, Yr(2015)}, hi : {NoYear, Yr(2020)},
     countries : {<<>>, <<"BRA", "MEX">>, <<"bra", "ARG">>}]

FilterCalls ==
    CallsOver([data : FilterData, dims : {HttpError(DimsJson(<<>>))},
               meta : {OK(MetaNamed("Population"))}],
              FilterArgs, MaxIndicators)

-----------------------------------------------------------------------------
(* Specifications *)

InitDim ==
    /\ cache = [id \in DimIds |-> NoArtifact]
    /\ netCalls = 0
    /\ lastCall = NoCall

InitCall(calls) ==
    \E n \in 0..calls.maxn, a \in calls.args :
        /\ indicator_ids = Ids(n)
        /\ start_year = a.lo
        /\ end_year = a.hi
        /\ countries = a.countries
        /\ world \in [1..n -> calls.answers]
        /\ pc = "loop"
        /\ i = 1
        /\ dfs = <<>>
        /\ year_column = NoColumn
        /\ log = {}
        /\ result = NotReturned

Init ==
    /\ \/ InitCall(TransportCalls)
       \/ InitCall(EnrichCalls)
       \/ InitCall(MetaCalls)
    /\ InitDim

Spec == Init /\ [][Next]_vars

-----------------------------------------------------------------------------
(* Properties of cepal_data                                                *)

Terminated == pc \in {"done", "raised"}

\* The data request of the k-th indicator gives rows.
DataYieldsRows(k) ==
    LET d == world[indicator_ids[k]].data
    IN  ~Raises(d) /\ StatusOK(d) /\ d.json.body.data.rows # <<>>

\* The k-th indicator is skipped at the data fetch: a non-success status, or
\* an empty body data.
SkippedAtData(k) ==
    LET d == world[indicator_ids[k]].data
    IN  ~Raises(d) /\ (~StatusOK(d) \/ d.json.body.data.rows = <<>>)

NoFilterGiven == ~start_year.given /\ ~end_year.given /\ countries = <<>>

\* The rows the k-th indicator contributed to the combined frame.
RowsOf(df, k) ==
    {r \in DOMAIN df.rows : df.rows[r]["indicator_id"] = I(indicator_ids[k])}

\* C1: cepal_data returns None if and only if every indicator was skipped at
\* the data fetch; whenever the data fetch of some indicator yields rows it
\* returns a table, whatever becomes of the dimensions and metadata requests
\* and of the filters.
C1_NoneIffAllSkipped ==
    Terminated =>
        /\ (result.kind = "none") <=>
               (\A k \in DOMAIN indicator_ids : SkippedAtData(k))
        /\ (\E k \in DOMAIN indicator_ids : DataYieldsRows(k)) =>
               result.kind = "frame"

\* The same statement for the calls in which no request raises.
NoRequestRaises ==
    \A k \in DOMAIN indicator_ids :
        LET w == world[indicator_ids[k]]
        IN  ~Raises(w.data) /\ ~Raises(w.dims) /\ ~Raises(w.meta)

NoneIffAllSkippedUnlessRaised ==
    (Terminated /\ NoRequestRaises) =>
        /\ pc = "done"
        /\ (result.kind = "none") <=>
               (\A k \in DOMAIN indicator_ids : SkippedAtData(k))
        /\ (\E k \in DOMAIN indicator_ids : DataYieldsRows(k)) =>
               result.kind = "frame"

\* C2: whatever the outcome of the data, dimensions and metadata requests
\* (success, non-success status, connection error), cepal_data does not
\* abort: every indicator of indicator_ids is processed, and the rows of
\* every indicator whose data fetch succeeded are in the combined dataset.
C2_NeverAborts ==
    /\ pc # "raised"
    /\ pc = "done" =>
          /\ i = Len(indicator_ids) + 1
          /\ \A k \in DOMAIN indicator_ids :
                DataYieldsRows(k) =>
                    Cardinality(RowsOf(Concat(dfs), k)) =
                        Len(world[indicator_ids[k]].data.json.body.data.rows)

\* A call of one indicator, without filters, whose three requests succeed:
\* the returned frame is the enriched frame of that indicator.
EnrichedAlone ==
    /\ pc = "done"
    /\ result.kind = "frame"
    /\ Len(indicator_ids) = 1
    /\ NoFilterGiven
    /\ StatusOK(world[indicator_ids[1]].dims)

RawData == world[indicator_ids[1]].data.json.body.data

DimensionTable ==
    BuildDimensionMaps(world[indicator_ids[1]].dims.json.body.dimensions,
                       [names |-> <<>>, members |-> <<>>])

\* The member name for a code, codes and member ids compared in string form;
\* null when no member has the code.
LabelOf(member_map, code) ==
    LET hits == {j \in DOMAIN member_map : PyStr(member_map[j].k) = PyStr(code)}
    IN  IF hits = {} THEN Null
        ELSE S(member_map[CHOOSE j \in hits : \A h \in hits : h <= j].v)

\* C3: for every dimension column dim_<id> that is both in the rows and in
\* the Dimension Table, and every row, the column named after the dimension's
\* display name holds the member name of the row's code (null when the code
\* has no member); no row is dropped.
C3_LabelsMapped ==
    EnrichedAlone =>
        /\ NRows(result.df) = Len(RawData.rows)
        /\ \A d \in DOMAIN DimensionTable.members :
              LET dim_col == DimensionTable.members[d].k
                  label == DictGet(DimensionTable.names, dim_col)
              IN  dim_col \in Range(RawData.cols) =>
                      /\ HasCol(result.df, label)
                      /\ \A r \in DOMAIN RawData.rows :
                            result.df.rows[r][label] =
                                LabelOf(DimensionTable.members[d].v,
                                        RawData.rows[r][dim_col])

\* dim_<id>
IsDimColumn(c) == \E id \in 1..3 : c = DimColumn(id)

\* C4: enrichment never removes, renames or changes a coded column: every
\* dim_<id> column of the raw rows is in the enriched frame under the same
\* name, with the same value in every row, whatever the Dimension Table.
C4_CodedColumnsKept ==
    EnrichedAlone =>
        \A c \in Range(RawData.cols) :
            IsDimColumn(c) =>
                /\ HasCol(result.df, c)
                /\ NRows(result.df) = Len(RawData.rows)
                /\ \A r \in DOMAIN RawData.rows :
                      result.df.rows[r][c] = RawData.rows[r][c]

\* The name the fallback order (a)..(e) gives: the first field present.
FirstPresentName(indicator_id, metadata_response) ==
    LET m == metadata_response.json
        has_body == "body" \in DOMAIN m
    IN  IF ~StatusOK(metadata_response) THEN DefaultName(indicator_id)
        ELSE IF has_body /\ "metadata" \in DOMAIN m.body
                /\ "indicator_name" \in DOMAIN m.body.metadata
             THEN m.body.metadata.indicator_name
        ELSE IF has_body /\ "indicator_name" \in DOMAIN m.body
             THEN m.body.indicator_name
        ELSE IF has_body /\ "indicators" \in DOMAIN m.body
                /\ m.body.indicators # <<>>
                /\ "name" \in DOMAIN m.body.indicators[1]
             THEN m.body.indicators[1].name
        ELSE IF has_body /\ "name" \in DOMAIN m.body THEN m.body.name
        ELSE IF has_body /\ "title" \in DOMAIN m.body THEN m.body.title
        ELSE DefaultName(indicator_id)

\* C9: the display name of an indicator is the value of the first field
\* present in the order (a) body.metadata.indicator_name, (b)
\* body.indicator_name, (c) the name of the first entry of body.indicators,
\* (d) body.name, (e) body.title; it is 'Indicator <id>' when the metadata
\* request has a non-success status or none of the five is present.
C9_NameFallbackOrder ==
    EnrichedAlone =>
        \A r \in DOMAIN result.df.rows :
            result.df.rows[r]["indicator_name"] =
                S(FirstPresentName(indicator_ids[1], world[indicator_ids[1]].meta))

-----------------------------------------------------------------------------
(* Properties of the filters                                               *)

InitFilter ==
    /\ \/ InitCall(YearColumnCalls)
       \/ InitCall(FilterCalls)
    /\ InitDim

SpecFilter == InitFilter /\ [][Next]_vars

ReturnedFrame == pc = "done" /\ result.kind = "frame"

YearBoundGiven == start_year.given \/ end_year.given

\* The Combined Dataset of the call.
Combined == Concat(dfs)

\* The index labels of the rows of df that satisfy P, in row order.
LabelsWhere(df, P(_)) ==
    LET pos == SelectSeq([r \in DOMAIN df.rows |-> r], LAMBDA r : P(df.rows[r]))
    IN  [k \in DOMAIN pos |-> df.idx[pos[k]]]

\* The year value of a row is numeric and within the inclusive bounds.
YearWithinBounds(row) ==
    LET v == ToNumeric(row[year_column])
    IN  /\ v.t = "int"
        /\ start_year.given => v.n >= start_year.n
        /\ end_year.given => v.n <= end_year.n

\* C7: with a year column identified and bounds given, the filtered result
\* consists of exactly the rows of the Combined Dataset whose year value is
\* numeric and satisfies start_year <= value <= end_year (each bound if
\* given, both inclusive); after country filtering too, every row left
\* satisfies them.
C7_YearRowsExact ==
    (ReturnedFrame /\ YearBoundGiven /\ year_column # NoColumn) =>
        LET combined == Combined
        IN  /\ countries = <<>> =>
                  result.df.idx = LabelsWhere(combined, YearWithinBounds)
            /\ \A r \in DOMAIN result.df.rows :
                  LET v == result.df.rows[r][year_column]
                  IN  /\ v.t = "int"
                      /\ start_year.given => v.n >= start_year.n
                      /\ end_year.given => v.n <= end_year.n

\* C7 witness: start_year=2015, end_year=2020 on year values below, on and
\* above the bounds and a non-numeric one; some rows are kept, some removed.
C7_Witness ==
    /\ ReturnedFrame
    /\ start_year = Yr(2015) /\ end_year = Yr(2020)
    /\ countries = <<>>
    /\ year_column = "Year"
    /\ \E r \in DOMAIN Combined.rows : Combined.rows[r]["Year"] = S("n/a")
    /\ \E r \in DOMAIN Combined.rows : Combined.rows[r]["Year"] = S("2015")
    /\ \E r \in DOMAIN Combined.rows : Combined.rows[r]["Year"] = I(2021)
    /\ \E r \in DOMAIN result.df.rows : result.df.rows[r]["Year"] = I(2015)
    /\ \E r \in DOMAIN result.df.rows : result.df.rows[r]["Year"] = I(2020)
    /\ NRows(result.df) < NRows(Combined)

\* The frame the country filter is applied to.
YearFiltered == YearStage(Combined, start_year, end_year).df

\* The row's iso3 value, upper-cased, is the upper-cased form of code c.
MatchesCode(row, c) ==
    row["iso3"].t = "str" /\ PyUpper(row["iso3"].s) = PyUpper(c)

MatchesRequested(row) == \E c \in Range(countries) : MatchesCode(row, c)

\* The codes reported as unmatched (none when no warning was logged).
ReportedMissing ==
    UNION {l.codes : l \in {m \in log : m.what = "missing_countries"}}

YearPriority ==
    <<"Años__ESTANDAR", "Years__ESTANDAR", "Year", "TIME", "Time", "YEAR",
      "year", "Period", "period", "TIME_PERIOD">>

\* The column the priority order gives for the columns cols.
PriorityYearColumn(cols) ==
    LET exact == {k \in DOMAIN YearPriority : YearPriority[k] \in Range(cols)}
        loose == {k \in DOMAIN cols : LooksLikeYear(cols[k])}
    IN  IF exact # {}
        THEN YearPriority[CHOOSE k \in exact : \A j \in exact : k <= j]
        ELSE IF loose # {}
        THEN cols[CHOOSE k \in loose : \A j \in loose : k <= j]
        ELSE NoColumn

\* C10: with a year bound given, the year column is the first match of the
\* priority order (the two standard names, the exact names in their order,
\* then the first column in column order whose lower-cased name contains
\* 'year' or 'año'); with no match, year filtering removes no row.
C10_YearColumnPriority ==
    (ReturnedFrame /\ YearBoundGiven) =>
        LET combined == Combined
        IN  /\ year_column = PriorityYearColumn(combined.cols)
            /\ year_column = NoColumn =>
                  /\ YearStage(combined, start_year, end_year).df = combined
                  /\ countries = <<>> => result.df = combined

\* C10 witness: a column matching only by substring comes before an exact
\* candidate in column order, and the exact candidate is chosen.
C10_Witness ==
    /\ ReturnedFrame
    /\ YearBoundGiven
    /\ \E a, b \in DOMAIN Combined.cols :
          /\ a < b
          /\ Combined.cols[a] = "ref_YEAR"
          /\ Combined.cols[b] = "Period"
    /\ year_column = "Period"

\* A call in which no column matches: the filter is skipped.
NoYearColumnSkips ==
    /\ ReturnedFrame /\ YearBoundGiven
    /\ year_column = NoColumn
    /\ NRows(result.df) = NRows(Combined) /\ NRows(Combined) > 0

-----------------------------------------------------------------------------
(* Properties of load_dimension_data                                       *)

InitIdle ==
    /\ indicator_ids = <<>>
    /\ start_year = NoYear
    /\ end_year = NoYear
    /\ countries = <<>>
    /\ world = <<>>
    /\ pc = "idle"
    /\ i = 1
    /\ dfs = <<>>
    /\ year_column = NoColumn
    /\ log = {}
    /\ result = NotReturned
    /\ InitDim

SpecDim == InitIdle /\ [][NextDim]_vars

\* The last call was made with caching enabled while a cache artifact existed.
CachedCall == lastCall.cache_dim /\ lastCall.before.exists

\* C5: a call with caching enabled, a cache artifact existing, issues no
\* network call and returns data identical to the artifact's contents, after
\* any earlier sequence of calls.
C5_CacheHitNoNetwork ==
    CachedCall =>
        /\ lastCall.requests = 0
        /\ lastCall.outcome = "returned"
        /\ lastCall.value = lastCall.before.table

\* The same statement for the artifacts that hold a whole pickle.
CacheHitOnWholeArtifact ==
    (CachedCall /\ lastCall.before.complete) =>
        /\ lastCall.requests = 0
        /\ lastCall.outcome = "returned"
        /\ lastCall.value = lastCall.before.table

\* C6: load_dimension_data never lets an exception reach its caller; on any
\* error, a cache artifact that cannot be deserialized included, it logs the
\* error and returns None.
C6_NeverRaises ==
    /\ lastCall.outcome # "raised"
    /\ lastCall.outcome = "none" => lastCall.logged = "error"

====
